---- MODULE Spec2Model ----
(***************************************************************************)
(* A model of SynthSR/brain_generator.py: the BrainGenerator object, its   *)
(* construction (__init__), the generator it wraps around the Parameter    *)
(* Sampler (build_model_inputs) and the Synthesizer (labels_to_image_model)*)
(* and the public operation generate_brain.                                *)
(*                                                                         *)
(* A volume is modelled by its shape, the orientation of its voxel axes    *)
(* and the place it comes from (call, sample, image or target); an affine  *)
(* by the voxel axis that carries each world axis and the sign along it.   *)
(* An optional argument is the empty sequence (None) or a sequence holding *)
(* the value.                                                              *)
(***************************************************************************)
EXTENDS Integers, Sequences, FiniteSets, TLC

\* ------------------------------------------------------------ bounds
MaxFiles == 2
MaxLabels == 3
MaxBatch == 2
MaxCalls == 3

\* ------------------------------------------------------------ values
None == <<>>
Some(v) == <<v>>
IsNone(x) == x = <<>>
Val(x) == x[1]

Range(s) == {s[i] : i \in 1..Len(s)}
SetMax(S) == CHOOSE m \in S : \A x \in S : x <= m

\* np.eye(4): world axis i is voxel axis i, no axis reversed.
Eye == [axes |-> <<1, 2, 3>>, sign |-> <<1, 1, 1>>]

\* The voxel-to-world affines a label map file may carry.
NativeAffines ==
    { Eye,
      [axes |-> <<2, 1, 3>>, sign |-> <<1, -1, 1>>],
      [axes |-> <<3, 1, 2>>, sign |-> <<-1, 1, 1>>] }

\* The voxel grids a label map file may have, in its own axis order.
NativeShapes == { <<4, 6, 8>> }

\* The shapes a caller may ask for.
OutputShapes == { <<2, 3, 4>> }

\* The label values of the label maps of the directory, in the order
\* [background, non-sided, left, right].
DirLabels == [i \in 1..MaxLabels |-> i - 1]

\* The integer values an entry of generation_classes may take.
ClassValues == 0..(MaxLabels - 1)

\* The shapes of a prior_means / prior_stds array.
PriorShapes == { <<2>>, <<2, 2>>, <<3>> }

\* The messages of the assertions of __init__, and of the Sampler's build.
ErrCount == "Different number of images and segmentations"
ErrClassesShape == "if provided, generation labels should have the same shape as generation_labels"
ErrClassesRange == "generation_classes should a linear range between 0 and its maximum value."
ErrPriors == "malformed prior array"
ConfigErrors == {ErrCount, ErrClassesShape, ErrClassesRange, ErrPriors}

\* ------------------------------------------------------------ collaborators

\* utils.list_images_in_folder: the sorted paths of a directory of n files.
list_images_in_folder(n) == [i \in 1..n |-> i]

\* Re-expressing a shape held in the axis order of affine `aff` in the axis
\* order of affine `aff_ref`: the voxel axis that carries world axis w moves
\* from aff.axes[w] to aff_ref.axes[w]. The channel axis (the 4th) stays.
AlignShape(shape, aff, aff_ref) ==
    [k \in 1..Len(shape) |->
        IF k > 3 THEN shape[k]
        ELSE LET w == CHOOSE w \in 1..3 : aff_ref.axes[w] = k
             IN shape[aff.axes[w]]]

\* edit_volumes.align_volume_to_ref(volume, aff, aff_ref, n_dims): the volume
\* re-expressed in the orientation of aff_ref.
align_volume_to_ref(volume, aff, aff_ref) ==
    [volume EXCEPT !.shape = AlignShape(volume.shape, aff, aff_ref),
                   !.frame = aff_ref]

\* utils.get_volume_info(path, aff_ref=np.eye(4)): the shape of the volume
\* aligned to aff_ref, and the affine the file carries.
get_volume_info(dir) ==
    [shape |-> AlignShape(dir.shape, dir.aff, Eye), aff |-> dir.aff, n_dims |-> 3]

\* utils.get_list_labels(labels_dir): the label values of the directory.
get_list_labels(dir) == DirLabels

\* The number of classes K of a class map.
NumClasses(classes) == Cardinality(Range(classes))

\* A prior array is a 2-vector, or 2*n_mod rows of K columns.
PriorWellFormed(shape, K) ==
    \/ shape = <<2>>
    \/ /\ Len(shape) = 2
       /\ shape[1] >= 2
       /\ shape[1] % 2 = 0
       /\ shape[2] = K

\* build_model_inputs rejects malformed priors when it is built.
SamplerBuildOk(prior_means, prior_stds, classes) ==
    /\ PriorWellFormed(prior_means, NumClasses(classes))
    /\ PriorWellFormed(prior_stds, NumClasses(classes))

\* labels_to_image_model's output[0] shape without the batch axis: the asked
\* output shape (the label maps' shape when none is asked) and the channels.
SynthOutputShape(labels_shape, output_shape, n_channels) ==
    (IF IsNone(output_shape) THEN labels_shape ELSE Val(output_shape))
        \o <<n_channels>>

\* The label directories: n files of one grid, the first with affine aff, the
\* others with affine rest.
LabelDirs(affines) ==
    { d \in [n : 1..MaxFiles, shape : NativeShapes, aff : affines, rest : affines] :
        d.n = 1 => d.rest = d.aff }

\* The affine the k-th label map of a directory carries.
FileAffine(dir, k) == IF k = 1 THEN dir.aff ELSE dir.rest

\* ------------------------------------------------------------ __init__

\* The constructor's arguments: the label directory (its number of files and
\* the grid and affine of its first label map), and the options.
Classes(n) == UNION {[1..k -> ClassValues] : k \in 1..n}

\* Arguments that vary what the checks of __init__ read: the file counts, the
\* label list, the class map and the priors.
ValidationArgs ==
    [ labels_dir : LabelDirs({Eye}),
      images_dir : {None} \cup {Some(m) : m \in 1..MaxFiles},
      generation_labels : {None} \cup {Some(SubSeq(DirLabels, 1, k)) : k \in 1..MaxLabels},
      n_neutral_labels : {None, Some(1)},
      generation_classes : {None} \cup {Some(c) : c \in Classes(MaxLabels)},
      prior_means : PriorShapes,
      prior_stds : PriorShapes,
      batchsize : {1},
      output_shape : {None} ]

\* Arguments that vary what generation reads: the grid and affine of the
\* label maps, the batch size and the output shape.
GenerationArgs ==
    [ labels_dir : LabelDirs(NativeAffines),
      images_dir : {None, Some(1)},
      generation_labels : {Some(<<0, 1, 2>>)},
      n_neutral_labels : {None},
      generation_classes : {None, Some(<<0, 1, 1>>), Some(<<0, 0, 2>>), Some(<<0, 1>>)},
      prior_means : PriorShapes,
      prior_stds : {<<2>>},
      batchsize : 1..MaxBatch,
      output_shape : {None} \cup {Some(s) : s \in OutputShapes} ]

ConstructorArgs == ValidationArgs \cup GenerationArgs

\* A count check that lets fewer images than label maps through.
CountsMatchAtMost(labels_paths, images_paths) == Len(labels_paths) >= Len(images_paths)

\* len(self.labels_paths) == len(self.images_paths)
CountsMatch(labels_paths, images_paths) == Len(labels_paths) = Len(images_paths)

\* A shape check that lets a shorter class map through.
ClassesShapeAtMost(classes, labels) == Len(classes) <= Len(labels)

\* self.generation_classes.shape == self.generation_labels.shape
ClassesShapeOk(classes, labels) == Len(classes) = Len(labels)

\* np.unique(self.generation_classes), as the set of its values
unique_classes(classes) == Range(classes)

\* A range check that only looks for class 0.
ClassesRangeFromZero(classes) == 0 \in unique_classes(classes)

\* np.array_equal(unique_classes, np.arange(np.max(unique_classes)+1))
ClassesRangeOk(classes) ==
    unique_classes(classes) = 0..SetMax(unique_classes(classes))

\* A default class map that counts from 1.
DefaultClassesFromOne(n) == [i \in 1..n |-> i]

\* np.arange(self.generation_labels.shape[0])
DefaultClasses(n) == [i \in 1..n |-> i - 1]

\* The defaults of the bound specs, in thousandths.
DefaultBoundSpecs ==
    [scaling_bounds |-> 150, rotation_bounds |-> 15000,
     shearing_bounds |-> 12, translation_bounds |-> 5000,
     nonlin_std |-> 3000, bias_field_std |-> 300]

NoObject == [constructed |-> FALSE]

\* The fields __init__ sets from its arguments before it validates the class
\* map and builds the models.
InitFields(a) ==
    LET labels_paths == list_images_in_folder(a.labels_dir.n)
        info == get_volume_info(a.labels_dir)
        generation_labels ==
            IF ~IsNone(a.generation_labels) THEN Val(a.generation_labels)
            ELSE get_list_labels(a.labels_dir)
    IN [ constructed |-> TRUE,
         labels_paths |-> labels_paths,
         images_paths |->
            IF ~IsNone(a.images_dir)
            THEN Some(list_images_in_folder(Val(a.images_dir))) ELSE None,
         labels_shape |-> info.shape,
         aff |-> info.aff,
         n_dims |-> info.n_dims,
         generation_labels |-> generation_labels,
         n_neutral_labels |->
            IF ~IsNone(a.n_neutral_labels) THEN Val(a.n_neutral_labels)
            ELSE Len(generation_labels),
         batchsize |-> a.batchsize,
         n_channels |-> 1,
         output_shape |-> a.output_shape,
         generation_classes |->
            IF ~IsNone(a.generation_classes) THEN Val(a.generation_classes)
            ELSE DefaultClasses(Len(generation_labels)),
         prior_means |-> a.prior_means,
         prior_stds |-> a.prior_stds,
         bound_specs |-> DefaultBoundSpecs ]

\* _build_labels_to_image_model: the output shape of the model built.
model_output_shape(f) ==
    SynthOutputShape(f.labels_shape, f.output_shape, f.n_channels)

\* The first check of __init__ that fails, "" when none does.
InitError(a) ==
    LET f == InitFields(a)
    IN IF ~IsNone(a.images_dir) /\ ~CountsMatch(f.labels_paths, Val(f.images_paths))
       THEN ErrCount
       ELSE IF ~IsNone(a.generation_classes)
               /\ ~ClassesShapeOk(f.generation_classes, f.generation_labels)
       THEN ErrClassesShape
       ELSE IF ~IsNone(a.generation_classes) /\ ~ClassesRangeOk(f.generation_classes)
       THEN ErrClassesRange
       ELSE IF ~SamplerBuildOk(f.prior_means, f.prior_stds, f.generation_classes)
       THEN ErrPriors
       ELSE ""

\* The object __init__ leaves when no check fails.
InitObject(a) ==
    LET f == InitFields(a)
    IN f @@ [model_output_shape |-> model_output_shape(f)]

\* What the caller passed that the checks of __init__ read.
Checked(a) ==
    [ n_labels |-> a.labels_dir.n,
      images_dir |-> a.images_dir,
      generation_classes |-> a.generation_classes,
      prior_means |-> a.prior_means,
      prior_stds |-> a.prior_stds ]

\* ------------------------------------------------------------ state
VARIABLES
    phase,          \* "new", "constructed" or "failed"
    labels_dir,     \* the label directory on disk that the constructor was given
    args,           \* the arguments the constructor was called with (Checked)
    err,            \* the message of the error that ended construction
    self,           \* the BrainGenerator's fields
    nPulled,        \* bundles the Sampler (model_inputs_generator) has supplied
    nPredicted,     \* predictions the Synthesizer has returned
    nSynthFail,     \* predictions that raised
    nSamplerFail,   \* pulls that raised
    bgen,           \* brain_generator: "created", "running", "suspended", "closed"
    model_inputs,   \* local of _build_brain_generator
    image_target,   \* local of _build_brain_generator
    pc,             \* position of the caller inside generate_brain
    nCalls,         \* generate_brain calls started
    outcome,        \* how the last call ended
    trace,          \* the steps of the current call, in order
    result,         \* the last (image, target) returned
    batches         \* one entry per batch returned

vars == <<phase, labels_dir, args, err, self, nPulled, nPredicted, nSynthFail, nSamplerFail, bgen,
          model_inputs, image_target, pc, nCalls, outcome, trace, result, batches>>

config == <<phase, labels_dir, args, err, self>>
calls == <<nPulled, nPredicted, nSynthFail, nSamplerFail, bgen, model_inputs, image_target,
           pc, nCalls, outcome, trace, result, batches>>

Init ==
    /\ phase = "new"
    /\ labels_dir = None
    /\ args = None
    /\ err = ""
    /\ self = NoObject
    /\ nPulled = 0
    /\ nPredicted = 0
    /\ nSynthFail = 0
    /\ nSamplerFail = 0
    /\ bgen = "none"
    /\ model_inputs = None
    /\ image_target = None
    /\ pc = "idle"
    /\ nCalls = 0
    /\ outcome = "none"
    /\ trace = <<>>
    /\ result = None
    /\ batches = <<>>

\* BrainGenerator(...): __init__ runs to its end or to its first failing check.
Construct ==
    /\ phase = "new"
    /\ \E a \in ConstructorArgs :
        /\ labels_dir' = Some(a.labels_dir)
        /\ args' = Some(Checked(a))
        /\ err' = InitError(a)
        /\ IF InitError(a) = ""
           THEN /\ phase' = "constructed"
                /\ self' = InitObject(a)
                /\ bgen' = "created"
           ELSE /\ phase' = "failed"
                /\ self' = NoObject
                /\ bgen' = "none"
    /\ UNCHANGED <<nPulled, nPredicted, nSynthFail, nSamplerFail, model_inputs, image_target,
                   pc, nCalls, outcome, trace, result, batches>>

\* ------------------------------------------------------------ Sampler, Synthesizer

\* One bundle of the Sampler: batchsize label maps picked among the files
\* (sel), the index-aligned images when there are any, tagged with its rank
\* among the bundles supplied and the call that pulled it.
Bundle(sel) ==
    [ id |-> nPulled + 1,
      call |-> nCalls,
      maps |-> sel,
      images |-> IF IsNone(self.images_paths) THEN None ELSE Some(sel),
      n_channels |-> self.n_channels ]

\* One volume the Synthesizer emits for sample i of a bundle, in the
\* canonical frame.
Volume(b, i, kind, call) ==
    [ shape |-> self.model_output_shape,
      frame |-> Eye,
      kind |-> kind,
      sample |-> i,
      bundle |-> b.id,
      call |-> call ]

\* labels_to_image_model.predict(model_inputs): [image, target]
Predict(b, call) ==
    [ image |-> [i \in 1..Len(b.maps) |-> Volume(b, i, "image", call)],
      target |-> [i \in 1..Len(b.maps) |-> Volume(b, i, "target", call)] ]

\* ------------------------------------------------------------ generate_brain

\* A generator body that runs once, with no loop around it.
LoopOnce == FALSE

\* while True: of _build_brain_generator
LoopAgain == TRUE

\* The samples generate_brain walks: range(self.batchsize)
SampleRange == 1..self.batchsize

\* A loop that puts each sample back in the space of the label map the
\* Sampler picked for it.
AlignBatchToOwnMap(batch) ==
    [i \in SampleRange |->
        align_volume_to_ref(batch[i], Eye,
            FileAffine(Val(labels_dir), Val(model_inputs).maps[i]))]

\* The loop of generate_brain over one of the two batches.
AlignBatch(batch) ==
    [i \in SampleRange |-> align_volume_to_ref(batch[i], Eye, self.aff)]

\* Stacking along the last axis: np.stack(list, axis=-1).shape
StackShapeLastAxis(list) == list[1].shape \o <<Len(list)>>

\* np.stack(list, axis=0).shape
StackShape(list) == <<Len(list)>> \o list[1].shape

\* generate_brain is entered.
GenerateBrainCall ==
    /\ phase = "constructed"
    /\ pc = "idle"
    /\ nCalls < MaxCalls
    /\ nCalls' = nCalls + 1
    /\ pc' = "next"
    /\ outcome' = "running"
    /\ trace' = <<>>
    /\ UNCHANGED <<config, nPulled, nPredicted, nSynthFail, nSamplerFail, bgen, model_inputs,
                   image_target, result, batches>>

\* A generator that pulls its bundle once, before its loop: resumed after a
\* yield, it runs the Synthesizer again on the bundle it holds.
BrainGeneratorResumeNoPull ==
    /\ pc = "next"
    /\ bgen \in {"created", "suspended"}
    /\ bgen' = "running"
    /\ pc' = IF bgen = "created" THEN "pull" ELSE "predict"
    /\ UNCHANGED <<config, nPulled, nPredicted, nSynthFail, nSamplerFail, model_inputs,
                   image_target, nCalls, outcome, trace, result, batches>>

\* next(self.brain_generator): the generator starts, or resumes after its
\* yield and loops.
BrainGeneratorResume ==
    /\ pc = "next"
    /\ bgen \in {"created", "suspended"}
    /\ IF bgen = "created" \/ LoopAgain
       THEN /\ bgen' = "running"
            /\ pc' = "pull"
            /\ outcome' = outcome
       ELSE /\ bgen' = "closed"
            /\ pc' = "idle"
            /\ outcome' = "StopIteration"
    /\ UNCHANGED <<config, nPulled, nPredicted, nSynthFail, nSamplerFail, model_inputs,
                   image_target, nCalls, trace, result, batches>>

\* next() of a generator that an exception ended raises StopIteration.
BrainGeneratorExhausted ==
    /\ pc = "next"
    /\ bgen = "closed"
    /\ pc' = "idle"
    /\ outcome' = "StopIteration"
    /\ UNCHANGED <<config, nPulled, nPredicted, nSynthFail, nSamplerFail, bgen, model_inputs,
                   image_target, nCalls, trace, result, batches>>

\* model_inputs = next(self.model_inputs_generator)
SamplerNext ==
    /\ pc = "pull"
    /\ \E sel \in [1..self.batchsize -> 1..Len(self.labels_paths)] :
          model_inputs' = Some(Bundle(sel))
    /\ nPulled' = nPulled + 1
    /\ trace' = Append(trace, "pull")
    /\ pc' = "predict"
    /\ UNCHANGED <<config, nPredicted, nSynthFail, nSamplerFail, bgen, image_target, nCalls,
                   outcome, result, batches>>

\* The Sampler raises: the exception leaves the generator, which is finished.
SamplerRaises ==
    /\ pc = "pull"
    /\ nSamplerFail' = nSamplerFail + 1
    /\ bgen' = "closed"
    /\ pc' = "idle"
    /\ outcome' = "SamplerError"
    /\ UNCHANGED <<config, nPulled, nPredicted, nSynthFail, model_inputs,
                   image_target, nCalls, trace, result, batches>>

\* A generator that runs the Synthesizer once for the image and once more
\* for the target.
SynthPredictTwice ==
    /\ pc = "predict"
    /\ image_target' = Some(Predict(Val(model_inputs), nCalls))
    /\ nPredicted' = nPredicted + 2
    /\ trace' = Append(trace, "predict")
    /\ bgen' = "suspended"
    /\ pc' = "align"
    /\ UNCHANGED <<config, nPulled, nSynthFail, nSamplerFail, model_inputs, nCalls, outcome,
                   result, batches>>

\* [image, target] = self.labels_to_image_model.predict(model_inputs)
\* yield image, target
SynthPredict ==
    /\ pc = "predict"
    /\ image_target' = Some(Predict(Val(model_inputs), nCalls))
    /\ nPredicted' = nPredicted + 1
    /\ trace' = Append(trace, "predict")
    /\ bgen' = "suspended"
    /\ pc' = "align"
    /\ UNCHANGED <<config, nPulled, nSynthFail, nSamplerFail, model_inputs, nCalls, outcome,
                   result, batches>>

\* The Synthesizer raises: the exception leaves the generator, which is finished.
SynthRaises ==
    /\ pc = "predict"
    /\ nSynthFail' = nSynthFail + 1
    /\ bgen' = "closed"
    /\ pc' = "idle"
    /\ outcome' = "SynthError"
    /\ UNCHANGED <<config, nPulled, nPredicted, nSamplerFail, model_inputs, image_target,
                   nCalls, trace, result, batches>>

\* A generate_brain that, once the batch is re-projected, keeps the canonical
\* affine in self.aff.
GenerateBrainReturnOverwritesAff ==
    /\ pc = "align"
    /\ LET out == Val(image_target)
           image == AlignBatch(out.image)
           target == AlignBatch(out.target)
       IN /\ result' = Some([image |-> image, target |-> target,
                             image_shape |-> StackShape(image),
                             target_shape |-> StackShape(target)])
          /\ batches' = Append(batches,
                [ call |-> nCalls,
                  bundle |-> out.image[1].bundle,
                  pulled_in |-> Val(model_inputs).call,
                  predicted_in |-> out.image[1].call ])
    /\ self' = [self EXCEPT !.aff = Eye]
    /\ trace' = Append(trace, "align")
    /\ outcome' = "batch"
    /\ pc' = "idle"
    /\ UNCHANGED <<phase, labels_dir, args, err, nPulled, nPredicted, nSynthFail, nSamplerFail,
                   bgen, model_inputs, image_target, nCalls>>

\* The rest of generate_brain: every sample put back in native space, the
\* two lists stacked and returned.
GenerateBrainReturn ==
    /\ pc = "align"
    /\ LET out == Val(image_target)
           image == AlignBatch(out.image)
           target == AlignBatch(out.target)
       IN /\ result' = Some([image |-> image, target |-> target,
                             image_shape |-> StackShape(image),
                             target_shape |-> StackShape(target)])
          /\ batches' = Append(batches,
                [ call |-> nCalls,
                  bundle |-> out.image[1].bundle,
                  pulled_in |-> Val(model_inputs).call,
                  predicted_in |-> out.image[1].call ])
    /\ trace' = Append(trace, "align")
    /\ outcome' = "batch"
    /\ pc' = "idle"
    /\ UNCHANGED <<config, nPulled, nPredicted, nSynthFail, nSamplerFail, bgen, model_inputs,
                   image_target, nCalls>>

Next ==
    \/ Construct
    \/ GenerateBrainCall
    \/ BrainGeneratorResume
    \/ BrainGeneratorExhausted
    \/ SamplerNext
    \/ SamplerRaises
    \/ SynthPredict
    \/ SynthRaises
    \/ GenerateBrainReturn

Spec == Init /\ [][Next]_vars

\* ------------------------------------------------------------ construction claims

\* S is {0, ..., max S}: it starts at 0 and has no gap.
IsInitialSegment(S) ==
    /\ S # {}
    /\ \A v \in S : v >= 0 /\ (v > 0 => (v - 1) \in S)

\* C1: a class map whose values are not exactly {0, ..., max} (such as
\* [0,0,2]) makes construction fail, and the class map of every constructed
\* BrainGenerator has values {0, ..., max} with no gap.
C1_ClassesContiguous ==
    /\ (phase # "new" /\ ~IsNone(Val(args).generation_classes)
            /\ ~IsInitialSegment(Range(Val(Val(args).generation_classes))))
        => (phase = "failed" /\ err # "")
    /\ phase = "constructed" => IsInitialSegment(Range(self.generation_classes))

\* The class map [0,0,2] was passed and the range assertion ended construction.
C1_Witness ==
    /\ phase = "failed"
    /\ err = ErrClassesRange
    /\ Val(args).generation_classes = Some(<<0, 0, 2>>)

\* C2: with images_dir given and a number of images other than the number of
\* label maps, construction fails with the count-mismatch error; with no
\* images_dir the count check never fails and images_paths stays None.
C2_CountMismatch ==
    phase # "new" =>
        LET a == Val(args)
        IN /\ (~IsNone(a.images_dir) /\ Val(a.images_dir) # a.n_labels)
                => (phase = "failed" /\ err = ErrCount)
           /\ IsNone(a.images_dir)
                => (err # ErrCount /\ (phase = "constructed" => IsNone(self.images_paths)))

\* Two label maps and one image were given and construction failed on the count.
C2_Witness ==
    /\ phase = "failed"
    /\ err = ErrCount
    /\ Val(args).n_labels = 2
    /\ Val(args).images_dir = Some(1)

\* C9: with no generation_classes, position i of the class map holds class
\* i (0-based), so there are as many classes as generation labels and the
\* class values are {0, ..., N-1}.
C9_DefaultClasses ==
    (phase = "constructed" /\ IsNone(Val(args).generation_classes)) =>
        LET N == Len(self.generation_labels)
        IN /\ Len(self.generation_classes) = N
           /\ \A i \in 1..N : self.generation_classes[i] = i - 1
           /\ NumClasses(self.generation_classes) = N
           /\ IsInitialSegment(Range(self.generation_classes))
           /\ ClassesRangeOk(self.generation_classes)

\* A BrainGenerator was constructed over three labels with no class map given.
C9_Witness ==
    /\ phase = "constructed"
    /\ IsNone(Val(args).generation_classes)
    /\ Len(self.generation_labels) = 3

\* ------------------------------------------------------------ generation claims

\* C3 (as claimed): a call in which the Sampler or the Synthesizer raised
\* leaves nothing behind, so a later call behaves like any other: a call ends
\* with a batch, or with the error the Sampler or the Synthesizer raised
\* within it, and never with StopIteration.
C3_FailedCallCanBeRetried ==
    (phase = "constructed" /\ pc = "idle" /\ nCalls > 0) =>
        outcome \in {"batch", "SamplerError", "SynthError"}

\* C4: as long as the Sampler has supplied every bundle asked for and the
\* Synthesizer has returned from every prediction, the generator is never
\* finished, no call ends with StopIteration, and every call made has
\* returned a batch.
C4_NeverExhausted ==
    (nSamplerFail = 0 /\ nSynthFail = 0) =>
        /\ bgen # "closed"
        /\ outcome # "StopIteration"
        /\ pc = "idle" => (Len(batches) = nCalls /\ (nCalls > 0 => outcome = "batch"))

\* Three calls in a row have each returned a batch.
C4_Witness ==
    /\ pc = "idle"
    /\ nCalls >= 3
    /\ Len(batches) = nCalls
    /\ nSamplerFail = 0
    /\ nSynthFail = 0

\* C5 (as claimed): between calls, as many bundles have been pulled and as
\* many predictions made as batches have been returned.
C5_ExactlyOnePullPerBatch ==
    pc = "idle" => (nPulled = Len(batches) /\ nPredicted = Len(batches))

\* C5 (amended): no two returned batches come from the same bundle, each comes
\* from the bundle pulled and the prediction made in its own call, and between
\* calls, with n batches returned, exactly n predictions have returned and
\* exactly n + f bundles have been pulled, f the number of calls whose
\* prediction raised after the bundle was pulled.
C5_OneBundleOneBatch ==
    /\ \A j, k \in 1..Len(batches) :
            j # k => batches[j].bundle # batches[k].bundle
    /\ \A k \in 1..Len(batches) : batches[k].bundle <= nPulled
    /\ pc = "idle" =>
            /\ nPredicted = Len(batches)
            /\ nPulled = Len(batches) + nSynthFail

\* Two batches were returned and then a prediction raised on a third bundle.
C5_Witness ==
    /\ pc = "idle"
    /\ Len(batches) = 2
    /\ nSynthFail = 1
    /\ nPulled = 3

IsReorientedBatchShape(s, o, batchsize, aff) ==
    /\ Len(s) = Len(o) + 1
    /\ s[1] = batchsize
    /\ \A w \in 1..3 : s[1 + aff.axes[w]] = o[w]
    /\ s[Len(s)] = o[Len(o)]

ConfigurationValid ==
    /\ ~IsNone(self.images_paths) =>
            Len(Val(self.images_paths)) = Len(self.labels_paths)
    /\ Len(self.generation_classes) = Len(self.generation_labels)
    /\ IsInitialSegment(Range(self.generation_classes))
    /\ PriorWellFormed(self.prior_means, NumClasses(self.generation_classes))
    /\ PriorWellFormed(self.prior_stds, NumClasses(self.generation_classes))

C8_ConfigurationImmutable ==
    [][phase = "constructed" => (self' = self /\ phase' = phase)]_vars

\* Two calls have returned on a BrainGenerator whose native affine is not the
\* canonical one.
C8_Witness ==
    /\ phase = "constructed"
    /\ Len(batches) >= 2
    /\ self.aff # Eye

\* s is a prefix of t.
IsPrefix(s, t) == Len(s) <= Len(t) /\ \A i \in 1..Len(s) : s[i] = t[i]

\* C10: the steps of a call happen in the order pull, predict, re-project;
\* the Synthesizer runs on the bundle pulled in the same call, and the
\* volumes re-projected and returned are the output of the same call's
\* prediction.
C10_StepOrder ==
    /\ IsPrefix(trace, <<"pull", "predict", "align">>)
    /\ pc = "predict" =>
            (trace = <<"pull">> /\ Val(model_inputs).call = nCalls)
    /\ pc = "align" =>
            /\ trace = <<"pull", "predict">>
            /\ Val(image_target).image[1].call = nCalls
            /\ Val(image_target).image[1].bundle = Val(model_inputs).id
            /\ Val(model_inputs).call = nCalls
    /\ \A k \in 1..Len(batches) :
            /\ batches[k].pulled_in = batches[k].call
            /\ batches[k].predicted_in = batches[k].call
    /\ (pc = "idle" /\ outcome = "batch") =>
            /\ trace = <<"pull", "predict", "align">>
            /\ \A i \in 1..self.batchsize :
                    /\ Val(result).image[i].call = nCalls
                    /\ Val(result).target[i].call = nCalls

\* A second call has pulled its bundle, run the Synthesizer and returned.
C10_Witness ==
    /\ pc = "idle"
    /\ outcome = "batch"
    /\ nCalls = 2
    /\ trace = <<"pull", "predict", "align">>

\* ------------------------------------------------------------ re-projection

\* Volume v is sample i of batch `from` re-expressed in the frame of affine aff.
IsReprojected(v, from, i, aff) ==
    /\ from[i].frame = Eye
    /\ from[i].sample = i
    /\ v.frame = aff
    /\ v.sample = i
    /\ v.kind = from[i].kind
    /\ v.bundle = from[i].bundle
    /\ v.call = from[i].call

\* C11: when generate_brain returns, the image batch and the target batch
\* each hold batchsize samples; sample i of each is sample i of the
\* Synthesizer's image (resp. target) output, taken from the canonical
\* identity frame to the affine of the first label map of the directory, which
\* is the affine held since construction, whichever label maps the Sampler
\* picked for the batch.
C11_ReprojectedToFirstAffine ==
    /\ phase = "constructed" => self.aff = FileAffine(Val(labels_dir), 1)
    /\ (pc = "idle" /\ outcome = "batch") =>
        LET r == Val(result)
            out == Val(image_target)
        IN /\ Len(r.image) = self.batchsize
           /\ Len(r.target) = self.batchsize
           /\ Len(out.image) = self.batchsize
           /\ \A i \in 1..self.batchsize :
                /\ IsReprojected(r.image[i], out.image, i, FileAffine(Val(labels_dir), 1))
                /\ IsReprojected(r.target[i], out.target, i, FileAffine(Val(labels_dir), 1))
                /\ r.image[i].kind = "image"
                /\ r.target[i].kind = "target"
                /\ r.image[i].bundle = Val(model_inputs).id

\* A batch of two was returned whose second sample the Sampler drew from a
\* label map that carries another affine than the first label map.
C11_Witness ==
    /\ pc = "idle"
    /\ outcome = "batch"
    /\ self.batchsize = 2
    /\ Val(model_inputs).maps = <<1, 2>>
    /\ Val(labels_dir).rest # Val(labels_dir).aff
    /\ Val(labels_dir).aff # Eye
    /\ Val(result).image[2].frame = Val(labels_dir).aff

====
